---- MODULE Spec2Model ----
(***************************************************************************)
(* Model of the asynchronous job / callback orchestration of the grading   *)
(* service (app/main.py): request intake, the two background tasks         *)
(* process_blueprint_generation and process_grading, the Redis status     *)
(* keys, the temporary PDF files and the callbacks.                        *)
(*                                                                         *)
(* Each background task is a coroutine on one event loop.  An action is    *)
(* one step of a task; the synchronous model call holds the event loop     *)
(* (variable running) from the moment it is entered until it returns.      *)
(***************************************************************************)
EXTENDS Integers, Sequences, FiniteSets, TLC

\* ---------------------------------------------------------------- bounds
MaxTasks == 2
NumIds == 1
\* number of environment failures (a step result other than "ok") per run
MaxFailures == 1
\* number of per-criterion entries in one model response
MaxEntries == 2

Tasks == 1..MaxTasks
Ids == 1..NumIds
NoTask == 0
None == "none"

VARIABLES redis_client, running, pc, kind, ident, tmpfile, caught, escaped,
          store, log, ack, llm, rubric, out

\* the state of the service and of its background tasks
svars == <<redis_client, running, pc, kind, ident, tmpfile, caught, escaped,
           store, log, ack>>

\* one call of analyze_solution_sync or grade_submission_sync taken alone:
\* the parsed model response, the rubric argument and the value returned
fnvars == <<llm, rubric, out>>

vars == <<redis_client, running, pc, kind, ident, tmpfile, caught, escaped,
          store, log, ack, llm, rubric, out>>

\* ------------------------------------------------------- environment results
FetchResults == {"ok", "http_error", "timeout", "write_error"}
ExtractResults == {"ok", "no_text"}
ModelResults == {"ok", "error"}
PostResults == {"ok", "fail"}
RedisResults == {"ok", "raise"}
UnlinkResults == {"ok", "os_error"}

\* str(e) of the exception raised by a failed step
ErrMsg(op, res) ==
    CASE res = "ok" -> None
      [] op = "fetch" /\ res = "http_error" -> "HTTPStatusError"
      [] op = "fetch" /\ res = "timeout" -> "ReadTimeout"
      [] op = "fetch" /\ res = "write_error" -> "OSError(write)"
      [] op = "extract" /\ res = "no_text" -> "No extractable text found in PDF"
      [] op = "model" -> "model call failed"
      [] op = "set" -> "RedisError"
      [] op = "unlink" -> "OSError(unlink)"
      [] OTHER -> None

\* One logged operation of a task.  tag is the status token of a status
\* write, result and error are the two optional fields of a callback payload,
\* ret is the value send_callback returned.
Ev(op, res, tag, result, error) ==
    [op |-> op, res |-> res, tag |-> tag, result |-> result, error |-> error,
     ret |-> None]

\* ------------------------------------------------------------- job store
\* key f"job:blueprint:{assignment_id}" / f"job:grade:{submission_id}"
bp_key(t) == <<"job:blueprint", ident[t]>>

\* a grading key built with the prefix of the blueprint jobs
gr_key_shared(t) == <<"job:blueprint", ident[t]>>

gr_key(t) == <<"job:grade", ident[t]>>
Keys == {"job:blueprint", "job:grade"} \X Ids

\* status values: "processing", "completed", f"failed:{str(e)}"
Status(tag, msg) == [tag |-> tag, msg |-> msg]
Absent == Status("absent", None)

\* callback payloads: blueprint and error both default to None
BlueprintCallbackPayload_always_blueprint(blueprint, error) ==
    [result |-> "blueprint", error |-> error]

BlueprintCallbackPayload(blueprint, error) ==
    [result |-> blueprint, error |-> error]

GradingCallbackPayload(grading_result) ==
    [result |-> grading_result, error |-> None]

\* a send_callback that reports success whatever happened
send_callback_returns_true(res) == "True"

\* send_callback: `return True` after raise_for_status() has passed,
\* `return False` in the except block
send_callback_returns(res) == IF res = "ok" THEN "True" ELSE "False"

\* a job id that does not name the kind of job
job_id_kindless(k, id) == <<"job_", id>>

\* job_id = f"blueprint_{request.assignment_id}" / f"grade_{request.submission_id}"
job_id(k, id) == <<IF k = "blueprint" THEN "blueprint_" ELSE "grade_", id>>

\* AnalyzeSolutionResponse / GradeSubmissionResponse as returned by the endpoint
Acknowledge(k, id) == [success |-> TRUE, job_id |-> job_id(k, id)]
NoAck == [success |-> FALSE, job_id |-> <<None, 0>>]

\* lifespan: the client is kept only when from_url and ping succeed
lifespan(pingOk) == IF pingOk THEN "client" ELSE None

\* a download that creates the file before checking the response
download_pdf_creates_file_early(res) == TRUE

\* download_pdf: the temporary file is created only after
\* raise_for_status() has passed; a failing write leaves it on disk
download_pdf_creates_file(res) == res \in {"ok", "write_error"}

\* ------------------------------------------------ parsing the model's JSON
\* A string is the sequence of its words and separators; a word keeps its
\* capitalisation.
char_lower(c) ==
    CASE c \in {"Correctness", "CORRECTNESS"} -> "correctness"
      [] c = "Accuracy" -> "accuracy"
      [] c = "Concept" -> "concept"
      [] c = "Coverage" -> "coverage"
      [] c = "Logical" -> "logical"
      [] c = "Reasoning" -> "reasoning"
      [] c = "Structure" -> "structure"
      [] c = "Clarity" -> "clarity"
      [] c = "Presentation" -> "presentation"
      [] c = "Originality" -> "originality"
      [] OTHER -> c

\* str.lower() and str.replace(old, new)
str_lower(s) == [i \in 1..Len(s) |-> char_lower(s[i])]
str_replace(s, old, new) == [i \in 1..Len(s) |-> IF s[i] = old THEN new ELSE s[i]]

concept_coverage == <<"concept", "_", "coverage">>
reasoning_quality == <<"reasoning", "_", "quality">>
correctness == <<"correctness">>
clarity == <<"clarity">>

\* the dict literal key_map
key_map ==
    [k \in {concept_coverage,
            <<"logical", "_", "reasoning">>,
            <<"reasoning">>,
            reasoning_quality,
            <<"logical", "_", "reasoning", "_", "&", "_", "structure">>,
            correctness,
            <<"correctness", "_", "&", "_", "accuracy">>,
            clarity,
            <<"clarity", "_", "&", "_", "presentation">>} |->
        CASE k = concept_coverage -> concept_coverage
          [] k \in {<<"logical", "_", "reasoning">>, <<"reasoning">>,
                    reasoning_quality,
                    <<"logical", "_", "reasoning", "_", "&", "_", "structure">>}
               -> reasoning_quality
          [] k \in {correctness, <<"correctness", "_", "&", "_", "accuracy">>}
               -> correctness
          [] OTHER -> clarity]

\* dict.get(key, default)
dict_get(d, k, default) == IF k \in DOMAIN d THEN d[k] ELSE default

\* an assignment that keeps the value a key already has
dict_set_keeps_first(d, k, v) ==
    [x \in DOMAIN d \cup {k} |-> IF x \in DOMAIN d THEN d[x] ELSE v]

\* d[k] = v
dict_set(d, k, v) == [x \in DOMAIN d \cup {k} |-> IF x = k THEN v ELSE d[x]]

\* a normalisation that keeps the capitalisation
normalize_keeps_case(criterion) == str_replace(criterion, " ", "_")

\* breakdown.get("criterion", "").lower().replace(" ", "_")
normalize(criterion) == str_replace(str_lower(criterion), " ", "_")

ConceptScore(earned, max, feedback) ==
    [earned |-> earned, max |-> max, feedback |-> feedback]

\* The model's JSON object for a grading call: the key that holds the list
\* of per-criterion entries (section), the field of an entry that holds its
\* text (field), and the entries.  Every other key of an entry is as the
\* code reads it: criterion, max_marks, awarded_marks.
Response(section, field, entries) ==
    [fn |-> "grade_submission_sync", section |-> section, field |-> field,
     entries |-> entries]

\* The model's JSON object for an analysis call.  Each of its four top-level
\* keys is absent (the empty sequence) or holds a value (a sequence of one).
BlueprintResponse(concepts, expected_steps, key_facts, weights) ==
    [fn |-> "analyze_solution_sync", concepts |-> concepts,
     expected_steps |-> expected_steps, key_facts |-> key_facts,
     weights |-> weights]

\* the reply of the Job Store to the ping of the health probe
PingReply(res) == [fn |-> "health_check", ping |-> res]

NoResponse == [fn |-> None]

\* result.get(key, default) on a top-level key of the analysis response
result_get(value, default) == IF value = <<>> THEN default ELSE value[1]

NoResult == [fn |-> None]

\* result.get("rubric_breakdown", [])
rubric_breakdown(result) ==
    IF result.section = "rubric_breakdown" THEN result.entries ELSE <<>>

\* breakdown.get("evaluation", "")
evaluation(result, breakdown) ==
    IF result.field = "evaluation" THEN breakdown.text ELSE ""

\* the loop `for breakdown in result.get("rubric_breakdown", [])`, after n
\* iterations
RECURSIVE concept_scores_from(_, _)
concept_scores_from(result, n) ==
    IF n = 0 THEN <<>>
    ELSE LET breakdown == rubric_breakdown(result)[n]
             criterion == normalize(breakdown.criterion)
             key == dict_get(key_map, criterion, criterion)
         IN  dict_set(concept_scores_from(result, n - 1), key,
                      ConceptScore(breakdown.awarded_marks, breakdown.max_marks,
                                   evaluation(result, breakdown)))

\* the list of the loop "Ensure all 4 criteria exist"
criteria ==
    << <<concept_coverage, 30>>, <<reasoning_quality, 25>>,
       <<correctness, 30>>, <<clarity, 15>> >>

\* a loop body without the `if key not in concept_scores` test
ensure_criterion_overwrites(concept_scores, key, max_pts) ==
    dict_set(concept_scores, key, ConceptScore(0, max_pts, "Not evaluated"))

\* if key not in concept_scores: concept_scores[key] = ConceptScore(...)
ensure_criterion(concept_scores, key, max_pts) ==
    IF key \in DOMAIN concept_scores
      THEN concept_scores
      ELSE dict_set(concept_scores, key,
                    ConceptScore(0, max_pts, "Not evaluated"))

RECURSIVE ensure_all(_, _)
ensure_all(concept_scores, n) ==
    IF n = 0 THEN concept_scores
    ELSE ensure_criterion(ensure_all(concept_scores, n - 1),
                          criteria[n][1], criteria[n][2])

\* grade_submission_sync, from the parsed JSON to the GradingResult
grade_submission_sync(result) ==
    [fn |-> "grade_submission_sync",
     concept_scores |->
         ensure_all(concept_scores_from(result, Len(rubric_breakdown(result))),
                    Len(criteria))]

\* get_default_rubric()
get_default_rubric == [total_marks |-> 100]

\* `rubric or get_default_rubric()`: None is the empty sequence
use_rubric(r) == IF r = <<>> THEN get_default_rubric ELSE r[1]

\* a default that leaves the rubric empty
default_weights_empty == <<>>

\* the default of result.get("rubric", {...})
default_weights ==
    [k \in {concept_coverage, reasoning_quality, correctness, clarity} |->
        CASE k = concept_coverage -> 30
          [] k = reasoning_quality -> 25
          [] k = correctness -> 30
          [] OTHER -> 15]

BlueprintConcept(c) ==
    [name |-> c.name, weight |-> c.weight, description |-> c.description]

\* analyze_solution_sync, from the parsed JSON to the GradingBlueprint
analyze_solution_sync(result, r) ==
    [fn |-> "analyze_solution_sync",
     concepts |->
         LET cs == result_get(result.concepts, <<>>)
         IN  [i \in 1..Len(cs) |-> BlueprintConcept(cs[i])],
     expected_steps |-> result_get(result.expected_steps, <<>>),
     key_facts |-> result_get(result.key_facts, <<>>),
     rubric |-> result_get(result.weights, default_weights),
     total_points |-> 100]

\* a probe that takes the existence of the client for its health
redis_ok_if_client(client, ping) == client # None

\* redis_ok: set to True only after `await redis_client.ping()` returned
redis_ok(client, ping) == client # None /\ ping = "ok"

\* GET /health
health_check(client, ping) ==
    [fn |-> "health_check", status |-> "healthy",
     redis_connected |-> redis_ok(client, ping)]

\* ------------------------------------------------------------------ Init
Init ==
    /\ redis_client \in {lifespan(TRUE), lifespan(FALSE)}
    /\ running = NoTask
    /\ pc = [t \in Tasks |-> "free"]
    /\ kind = [t \in Tasks |-> None]
    /\ ident = [t \in Tasks |-> 0]
    /\ tmpfile = [t \in Tasks |-> FALSE]
    /\ caught = [t \in Tasks |-> None]
    /\ escaped = [t \in Tasks |-> FALSE]
    /\ store = [k \in Keys |-> Absent]
    /\ log = [t \in Tasks |-> <<>>]
    /\ ack = [t \in Tasks |-> NoAck]
    /\ llm = NoResponse
    /\ rubric = <<>>
    /\ out = NoResult

\* ---------------------------------------------------------------- helpers
\* failed steps logged so far, over all tasks
FailedSteps(s) == Len(SelectSeq(s, LAMBDA e : e.res # "ok"))

RECURSIVE FailuresUpTo(_)
FailuresUpTo(n) == IF n = 0 THEN 0 ELSE FailedSteps(log[n]) + FailuresUpTo(n - 1)

\* the environment may answer r: "ok" always, a failure while the budget lasts
MayAnswer(r) == r = "ok" \/ FailuresUpTo(MaxTasks) < MaxFailures

\* the task logs the operations evs and moves to nextpc; msg is the message of
\* the exception it caught on the way, if any
Advance(t, evs, nextpc, msg) ==
    /\ log' = [log EXCEPT ![t] = @ \o evs]
    /\ pc' = [pc EXCEPT ![t] = nextpc]
    /\ caught' = [caught EXCEPT ![t] = IF msg = None THEN @ ELSE msg]

\* a task that gives up when there is no client
SkipSet_returns(t, nextpc) ==
    /\ redis_client = None
    /\ pc' = [pc EXCEPT ![t] = "done"]
    /\ UNCHANGED <<log, caught, store>>

\* `if redis_client:` is false: the status write is skipped
SkipSet(t, nextpc) ==
    /\ redis_client = None
    /\ pc' = [pc EXCEPT ![t] = nextpc]
    /\ UNCHANGED <<log, caught, store>>

\* a first status write that says queued
TrySet_queued(t, key, tag, okpc, handler) ==
    /\ redis_client # None
    /\ \E r \in RedisResults :
          /\ MayAnswer(r)
          /\ Advance(t, <<Ev("set", r, "queued", None, None)>>,
                     IF r = "ok" THEN okpc ELSE handler,
                     IF r = "ok" THEN None ELSE ErrMsg("set", r))
          /\ store' = IF r = "ok"
                        THEN [store EXCEPT ![key] = Status("queued", None)]
                        ELSE store

\* await redis_client.set(key, "processing") inside the try block
TrySet(t, key, tag, okpc, handler) ==
    /\ redis_client # None
    /\ \E r \in RedisResults :
          /\ MayAnswer(r)
          /\ Advance(t, <<Ev("set", r, tag, None, None)>>,
                     IF r = "ok" THEN okpc ELSE handler,
                     IF r = "ok" THEN None ELSE ErrMsg("set", r))
          /\ store' = IF r = "ok"
                        THEN [store EXCEPT ![key] = Status(tag, None)]
                        ELSE store

FirstFree(t) == pc[t] = "free" /\ \A u \in Tasks : u < t => pc[u] # "free"

\* ids are names without structure and are only used in the status key of
\* their kind: a request carries an id a request of its kind has already
\* used, or the next unused one
NextId(k, id) ==
    id = 1 \/ \E u \in Tasks : pc[u] # "free" /\ kind[u] = k /\ ident[u] >= id - 1

\* --------------------------------------------------------- request intake
\* POST /analyze-solution: queue the background task and acknowledge
analyze_solution(t, id) ==
    /\ running = NoTask
    /\ FirstFree(t)
    /\ NextId("blueprint", id)
    /\ pc' = [pc EXCEPT ![t] = "queued"]
    /\ kind' = [kind EXCEPT ![t] = "blueprint"]
    /\ ident' = [ident EXCEPT ![t] = id]
    /\ ack' = [ack EXCEPT ![t] = Acknowledge("blueprint", id)]
    /\ UNCHANGED fnvars
    /\ UNCHANGED <<redis_client, running, tmpfile, caught, escaped, store, log>>

\* POST /grade-submission
grade_submission(t, id) ==
    /\ running = NoTask
    /\ FirstFree(t)
    /\ NextId("grade", id)
    /\ pc' = [pc EXCEPT ![t] = "queued"]
    /\ kind' = [kind EXCEPT ![t] = "grade"]
    /\ ident' = [ident EXCEPT ![t] = id]
    /\ ack' = [ack EXCEPT ![t] = Acknowledge("grade", id)]
    /\ UNCHANGED fnvars
    /\ UNCHANGED <<redis_client, running, tmpfile, caught, escaped, store, log>>

\* ------------------------------------------------- steps shared by both tasks
\* A step is what the coroutine does when an awaited call completes: the
\* synchronous statements that follow run in the same step, up to the next
\* await or up to the blocking model call.

\* pdf_path = await download_pdf(url); text = extract_text_from_pdf(pdf_path);
\* on success the task goes straight into the synchronous model call, which
\* keeps the event loop
download_and_extract(t, handler) ==
    \E r \in FetchResults, x \in ExtractResults :
       /\ MayAnswer(r) /\ MayAnswer(x)
       /\ r # "ok" => x = "ok"
       /\ Advance(t,
             IF r = "ok"
               THEN <<Ev("fetch", r, None, None, None),
                      Ev("extract", x, None, None, None)>>
               ELSE <<Ev("fetch", r, None, None, None)>>,
             IF r = "ok" /\ x = "ok" THEN "model" ELSE handler,
             IF r # "ok" THEN ErrMsg("fetch", r) ELSE ErrMsg("extract", x))
       /\ tmpfile' = [tmpfile EXCEPT ![t] = download_pdf_creates_file(r)]
       /\ running' = IF r = "ok" /\ x = "ok" THEN t ELSE NoTask

\* a task that cleans up before it notifies
model_call_returns_cleans_first(t, handler) ==
    \E r \in ModelResults :
       /\ MayAnswer(r)
       /\ Advance(t, <<Ev("model", r, None, None, None)>>,
                  IF r = "ok" THEN "set_completed" ELSE handler,
                  ErrMsg("model", r))
       /\ running' = NoTask

\* analyze_solution_sync / grade_submission_sync returns or raises; on
\* success the callback POST is issued
model_call_returns(t, handler) ==
    \E r \in ModelResults :
       /\ MayAnswer(r)
       /\ Advance(t, <<Ev("model", r, None, None, None)>>,
                  IF r = "ok" THEN "callback" ELSE handler, ErrMsg("model", r))
       /\ running' = NoTask

\* await send_callback(url, payload): one POST, the result is a boolean that
\* the caller ignores; it never raises
send_callback(t, payload, nextpc) ==
    \E r \in PostResults :
       /\ MayAnswer(r)
       /\ Advance(t, <<[Ev("callback", r, None, payload.result, payload.error)
                          EXCEPT !.ret = send_callback_returns(r)]>>,
                  nextpc, None)

\* `if redis_client: await redis_client.set(key, "completed")`, then
\* os.unlink(pdf_path), the last statement of the try block
set_completed_and_unlink(t, key, handler) ==
    \E r \in RedisResults, u \in UnlinkResults :
       /\ MayAnswer(r) /\ MayAnswer(u)
       /\ redis_client = None => r = "ok"
       /\ r # "ok" => u = "ok"
       /\ Advance(t,
             (IF redis_client = None
                THEN <<>> ELSE <<Ev("set", r, "completed", None, None)>>)
             \o (IF r = "ok"
                   THEN <<Ev("unlink", u, None, None, None)>> ELSE <<>>),
             IF r = "ok" /\ u = "ok" THEN "done" ELSE handler,
             IF r # "ok" THEN ErrMsg("set", r) ELSE ErrMsg("unlink", u))
       /\ store' = IF redis_client # None /\ r = "ok"
                     THEN [store EXCEPT ![key] = Status("completed", None)]
                     ELSE store
       /\ tmpfile' = [tmpfile EXCEPT
                        ![t] = IF r = "ok" /\ u = "ok" THEN FALSE ELSE @]

\* the status write of the except block: an exception here leaves the task
set_failed(t, key) ==
    \/ /\ SkipSet(t, "done")
       /\ UNCHANGED escaped
    \/ /\ redis_client # None
       /\ \E r \in RedisResults :
             /\ MayAnswer(r)
             /\ Advance(t, <<Ev("set", r, "failed", None, caught[t])>>,
                        "done", None)
             /\ store' = IF r = "ok"
                           THEN [store EXCEPT ![key] = Status("failed", caught[t])]
                           ELSE store
             /\ escaped' = [escaped EXCEPT ![t] = (r = "raise")]

\* ------------------------------------------- process_blueprint_generation
\* an except block without the error callback
bp_handler_silent == "set_failed"

\* an except block that only swallows the exception
bp_handler_swallows == "done"

\* entry of `except Exception as e:` : the error callback comes first
bp_handler == "error_callback"

bp_set_processing(t) ==
    /\ running = NoTask /\ kind[t] = "blueprint" /\ pc[t] = "queued"
    /\ \/ SkipSet(t, "fetch")
       \/ TrySet(t, bp_key(t), "processing", "fetch", bp_handler)
    /\ UNCHANGED fnvars
    /\ UNCHANGED <<redis_client, running, kind, ident, ack, tmpfile, escaped>>

bp_download(t) ==
    /\ running = NoTask /\ kind[t] = "blueprint" /\ pc[t] = "fetch"
    /\ download_and_extract(t, bp_handler)
    /\ UNCHANGED fnvars
    /\ UNCHANGED <<redis_client, kind, ident, ack, escaped, store>>

bp_analyze(t) ==
    /\ running = t /\ kind[t] = "blueprint" /\ pc[t] = "model"
    /\ model_call_returns(t, bp_handler)
    /\ UNCHANGED fnvars
    /\ UNCHANGED <<redis_client, kind, ident, ack, tmpfile, escaped, store>>

bp_success_callback(t) ==
    /\ running = NoTask /\ kind[t] = "blueprint" /\ pc[t] = "callback"
    /\ send_callback(t, BlueprintCallbackPayload("blueprint", None),
                     "set_completed")
    /\ UNCHANGED fnvars
    /\ UNCHANGED <<redis_client, running, kind, ident, ack, tmpfile, escaped, store>>

bp_set_completed(t) ==
    /\ running = NoTask /\ kind[t] = "blueprint" /\ pc[t] = "set_completed"
    /\ set_completed_and_unlink(t, bp_key(t), bp_handler)
    /\ UNCHANGED fnvars
    /\ UNCHANGED <<redis_client, running, kind, ident, ack, escaped>>

bp_error_callback(t) ==
    /\ running = NoTask /\ kind[t] = "blueprint" /\ pc[t] = "error_callback"
    /\ send_callback(t, BlueprintCallbackPayload(None, caught[t]), "set_failed")
    /\ UNCHANGED fnvars
    /\ UNCHANGED <<redis_client, running, kind, ident, ack, tmpfile, escaped, store>>

bp_set_failed(t) ==
    /\ running = NoTask /\ kind[t] = "blueprint" /\ pc[t] = "set_failed"
    /\ set_failed(t, bp_key(t))
    /\ UNCHANGED fnvars
    /\ UNCHANGED <<redis_client, running, kind, ident, ack, tmpfile>>

process_blueprint_generation(t) ==
    \/ bp_set_processing(t) \/ bp_download(t) \/ bp_analyze(t)
    \/ bp_success_callback(t) \/ bp_set_completed(t)
    \/ bp_error_callback(t) \/ bp_set_failed(t)

\* ---------------------------------------------------------- process_grading
\* an except block that goes on to the callback
gr_handler_notifies == "callback"

\* an except block that only swallows the exception
gr_handler_swallows == "done"

\* entry of `except Exception as e:` : only the status write, no callback
gr_handler == "set_failed"

gr_set_processing(t) ==
    /\ running = NoTask /\ kind[t] = "grade" /\ pc[t] = "queued"
    /\ \/ SkipSet(t, "fetch")
       \/ TrySet(t, gr_key(t), "processing", "fetch", gr_handler)
    /\ UNCHANGED fnvars
    /\ UNCHANGED <<redis_client, running, kind, ident, ack, tmpfile, escaped>>

gr_download(t) ==
    /\ running = NoTask /\ kind[t] = "grade" /\ pc[t] = "fetch"
    /\ download_and_extract(t, gr_handler)
    /\ UNCHANGED fnvars
    /\ UNCHANGED <<redis_client, kind, ident, ack, escaped, store>>

gr_grade(t) ==
    /\ running = t /\ kind[t] = "grade" /\ pc[t] = "model"
    /\ model_call_returns(t, gr_handler)
    /\ UNCHANGED fnvars
    /\ UNCHANGED <<redis_client, kind, ident, ack, tmpfile, escaped, store>>

gr_success_callback(t) ==
    /\ running = NoTask /\ kind[t] = "grade" /\ pc[t] = "callback"
    /\ send_callback(t, GradingCallbackPayload("grading_result"),
                     "set_completed")
    /\ UNCHANGED fnvars
    /\ UNCHANGED <<redis_client, running, kind, ident, ack, tmpfile, escaped, store>>

gr_set_completed(t) ==
    /\ running = NoTask /\ kind[t] = "grade" /\ pc[t] = "set_completed"
    /\ set_completed_and_unlink(t, gr_key(t), gr_handler)
    /\ UNCHANGED fnvars
    /\ UNCHANGED <<redis_client, running, kind, ident, ack, escaped>>

gr_set_failed(t) ==
    /\ running = NoTask /\ kind[t] = "grade" /\ pc[t] = "set_failed"
    /\ set_failed(t, gr_key(t))
    /\ UNCHANGED fnvars
    /\ UNCHANGED <<redis_client, running, kind, ident, ack, tmpfile>>

process_grading(t) ==
    \/ gr_set_processing(t) \/ gr_download(t) \/ gr_grade(t)
    \/ gr_success_callback(t) \/ gr_set_completed(t) \/ gr_set_failed(t)

\* ------------------------------------------------------------ specification
TaskStep(t) == process_blueprint_generation(t) \/ process_grading(t)

Intake == \E t \in Tasks, id \in Ids :
             analyze_solution(t, id) \/ grade_submission(t, id)

Next ==
    \/ \E t \in Tasks : process_blueprint_generation(t)
    \/ \E t \in Tasks : process_grading(t)
    \/ \E t \in Tasks, id \in Ids : analyze_solution(t, id)
    \/ \E t \in Tasks, id \in Ids : grade_submission(t, id)

Spec == Init /\ [][Next]_vars

\* a step that can be taken (an awaited call returning or raising, the model
\* call returning) is eventually taken by the event loop
FairSpec == Spec /\ WF_vars(\E t \in Tasks : TaskStep(t))

\* ------------------------------- the two parsing functions taken alone
\* criterion labels a model may write
Labels ==
    {<<"Correctness", " ", "&", " ", "Accuracy">>,
     <<"correctness", "_", "&", "_", "accuracy">>,
     <<"CORRECTNESS">>,
     <<"Concept", " ", "Coverage">>,
     <<"Logical", " ", "Reasoning">>,
     <<"Reasoning">>,
     <<"reasoning", "_", "quality">>,
     <<"Logical", " ", "Reasoning", " ", "&", " ", "Structure">>,
     <<"Clarity">>,
     <<"Clarity", " ", "&", " ", "Presentation">>,
     <<"Originality">>,
     <<"Correctness", " ", "and", " ", "Accuracy">>}

\* <<awarded_marks, max_marks>> of an entry
Marks == {<<20, 30>>, <<40, 30>>, <<-5, 30>>, <<0, 0>>}

Entries ==
    {[criterion |-> l, awarded_marks |-> m[1], max_marks |-> m[2],
      text |-> "marks were deducted"] : l \in Labels, m \in Marks}

\* the format the code reads and the format build_grading_prompt asks for
Formats ==
    {<<"rubric_breakdown", "evaluation">>, <<"rubric_alignment", "justification">>}

GradingResponses ==
    {Response(f[1], f[2], es) :
        f \in Formats, es \in UNION {[1..n -> Entries] : n \in 0..MaxEntries}}

\* values of the four top-level keys of an analysis response
ConceptLists ==
    {<<>>, << <<>> >>,
     << <<[name |-> "recursion", weight |-> 40,
           description |-> "base case and recursive step"]>> >>}
StepLists == {<<>>, << <<"state the base case">> >>}
FactLists == {<<>>, << <<"T(n) = 2T(n/2) + n">> >>}
WeightDicts ==
    {<<>>, <<[k \in {concept_coverage, reasoning_quality, correctness, clarity}
                |-> 25]>>}

BlueprintResponses ==
    {BlueprintResponse(c, e, k, w) :
        c \in ConceptLists, e \in StepLists, k \in FactLists, w \in WeightDicts}

PingReplies == {PingReply(r) : r \in RedisResults}

\* the rubric argument of process_blueprint_generation: None or the dump of
\* the request's GradingRubric
Rubrics == {<<>>} \cup {<<[total_marks |-> n]>> : n \in {50, 100}}

FnInit ==
    /\ running = NoTask
    /\ pc = [t \in Tasks |-> "free"]
    /\ kind = [t \in Tasks |-> None]
    /\ ident = [t \in Tasks |-> 0]
    /\ tmpfile = [t \in Tasks |-> FALSE]
    /\ caught = [t \in Tasks |-> None]
    /\ escaped = [t \in Tasks |-> FALSE]
    /\ store = [k \in Keys |-> Absent]
    /\ log = [t \in Tasks |-> <<>>]
    /\ ack = [t \in Tasks |-> NoAck]
    /\ \/ /\ llm \in GradingResponses /\ rubric = <<>>
          /\ redis_client = lifespan(TRUE)
       \/ /\ llm \in BlueprintResponses /\ rubric \in Rubrics
          /\ redis_client = lifespan(TRUE)
       \/ /\ llm \in PingReplies /\ rubric = <<>>
          /\ redis_client \in {lifespan(TRUE), lifespan(FALSE)}
    /\ out = NoResult

\* grading_result = grade_submission_sync(...)
call_grade_submission_sync ==
    /\ llm.fn = "grade_submission_sync" /\ out = NoResult
    /\ out' = grade_submission_sync(llm)
    /\ UNCHANGED <<llm, rubric>>
    /\ UNCHANGED svars

\* blueprint = analyze_solution_sync(solution_text, use_rubric)
call_analyze_solution_sync ==
    /\ llm.fn = "analyze_solution_sync" /\ out = NoResult
    /\ out' = analyze_solution_sync(llm, use_rubric(rubric))
    /\ UNCHANGED <<llm, rubric>>
    /\ UNCHANGED svars

\* one request GET /health; without a client there is no ping
call_health_check ==
    /\ llm.fn = "health_check" /\ out = NoResult
    /\ out' = health_check(redis_client, llm.ping)
    /\ UNCHANGED <<llm, rubric>>
    /\ UNCHANGED svars

FnNext ==
    \/ call_grade_submission_sync
    \/ call_analyze_solution_sync
    \/ call_health_check

FnSpec == FnInit /\ [][FnNext]_vars

\* ------------------------------------------------------ views of the log
Events(t, op) == SelectSeq(log[t], LAMBDA e : e.op = op)
Callbacks(t) == Events(t, "callback")
StatusWrites(t) == SelectSeq(log[t], LAMBDA e : e.op = "set" /\ e.res = "ok")
NonStatus(t) == SelectSeq(log[t], LAMBDA e : e.op # "set")
Result(t, op) == IF Events(t, op) = <<>> THEN None ELSE Events(t, op)[1].res
Done(t) == pc[t] = "done"
Terminal(e) == e.tag \in {"completed", "failed"}

\* ==================================================================== C1
\* C1: every finished blueprint job has invoked send_callback exactly once,
\* whichever step failed.
C1_ExactlyOneCallback ==
    \A t \in Tasks :
        kind[t] = "blueprint" /\ Done(t) => Len(Callbacks(t)) = 1

\* ==================================================================== C2
\* C2: a job that fetched its document into a temporary file has removed the
\* file when it ends, also when a later step failed.
C2_TempFileRemoved ==
    \A t \in Tasks :
        Done(t) /\ Result(t, "fetch") = "ok" => ~tmpfile[t]

\* ==================================================================== C3
\* C3: with a Job Store that rejects every status write, a job still runs
\* fetch, extraction and the model call, still sends the success callback
\* when those succeed, and no exception leaves the background task.
StoreRejectsAll(t) ==
    /\ Events(t, "set") # <<>>
    /\ \A i \in 1..Len(log[t]) : log[t][i].op = "set" => log[t][i].res = "raise"

InExcept(t) == pc[t] \in {"error_callback", "set_failed"}

C3_StoreOutageHarmless ==
    \A t \in Tasks :
        (Done(t) \/ InExcept(t)) /\ StoreRejectsAll(t) =>
            /\ Result(t, "fetch") # None
            /\ Result(t, "model") = "ok" =>
                  \E i \in 1..Len(log[t]) :
                      log[t][i].op = "callback" /\ log[t][i].result # None
            /\ ~escaped[t]

\* ==================================================================== C4
\* C4: once a job has written completed or failed:<reason> it writes nothing
\* more to its status key.
C4_TerminalAbsorbing ==
    \A t \in Tasks :
        \A i \in 1..Len(StatusWrites(t)) :
            Terminal(StatusWrites(t)[i]) => i = Len(StatusWrites(t))

\* ==================================================================== C5
\* C5: a grading job sends at most one callback, and sends one only after
\* fetch, extraction and grading all succeeded; a grading job that failed at
\* one of those steps has sent none.
C5_GradingCallbackOnlyOnSuccess ==
    \A t \in Tasks :
        kind[t] = "grade" =>
            /\ Len(Callbacks(t)) <= 1
            /\ Callbacks(t) # <<>> =>
                  /\ Result(t, "fetch") = "ok"
                  /\ Result(t, "extract") = "ok"
                  /\ Result(t, "model") = "ok"
            /\ Done(t) /\ Result(t, "model") # "ok" => Callbacks(t) = <<>>

C5_Witness ==
    \E t \in Tasks :
        /\ kind[t] = "grade" /\ Done(t)
        /\ Result(t, "model") = "error"
        /\ Callbacks(t) = <<>>

\* ==================================================================== C6
\* C6: every accepted blueprint job eventually attempts a callback, given
\* that each of its steps eventually returns or raises.
C6_EventuallyCallback ==
    \A t \in Tasks :
        (kind[t] = "blueprint" /\ pc[t] = "queued") ~> (Callbacks(t) # <<>>)

C6_Witness ==
    \E t \in Tasks :
        /\ kind[t] = "blueprint" /\ Done(t)
        /\ Result(t, "fetch") = "timeout"
        /\ Callbacks(t) # <<>>

\* ==================================================================== C7
\* C7: while one job waits on the model call, every other job that has a
\* step to take can take it, and a request can be accepted.
Waiting(t) == pc[t] \notin {"free", "done", "model"}

C7_ModelCallDoesNotBlock ==
    \A t \in Tasks :
        pc[t] = "model" =>
            /\ \A u \in Tasks : Waiting(u) => ENABLED TaskStep(u)
            /\ (\E u \in Tasks : pc[u] = "free") => ENABLED Intake

\* ==================================================================== C8
\* C8: a job run without a Job Store performs the same fetch, extract,
\* model-call, callback and cleanup operations, with the same callback
\* payloads, as the same job run with a store that accepts every write: in
\* both cases the operations are the one sequence fixed by the job kind and
\* the results of the steps.
Shape(e) == <<e.op, e.result, e.error>>
Shapes(s) == [i \in 1..Len(s) |-> Shape(s[i])]
Plain(op) == <<op, None, None>>
SuccessResult(k) == IF k = "blueprint" THEN "blueprint" ELSE "grading_result"

HandlerOps(k, msg) ==
    IF k = "blueprint" THEN << <<"callback", None, msg>> >> ELSE <<>>

PipelineOps(k, f, x, m, u) ==
    IF f # "ok" THEN <<Plain("fetch")>> \o HandlerOps(k, ErrMsg("fetch", f))
    ELSE IF x # "ok"
      THEN <<Plain("fetch"), Plain("extract")>>
              \o HandlerOps(k, ErrMsg("extract", x))
    ELSE IF m # "ok"
      THEN <<Plain("fetch"), Plain("extract"), Plain("model")>>
              \o HandlerOps(k, ErrMsg("model", m))
    ELSE <<Plain("fetch"), Plain("extract"), Plain("model"),
           <<"callback", SuccessResult(k), None>>, Plain("unlink")>>
              \o (IF u # "ok" THEN HandlerOps(k, ErrMsg("unlink", u)) ELSE <<>>)

StoreAcceptsAll(t) ==
    \A i \in 1..Len(log[t]) : log[t][i].op = "set" => log[t][i].res = "ok"

C8_SameOpsWithoutStore ==
    \A t \in Tasks :
        Done(t) /\ (redis_client = None \/ StoreAcceptsAll(t)) =>
            Shapes(NonStatus(t)) =
                PipelineOps(kind[t], Result(t, "fetch"), Result(t, "extract"),
                            Result(t, "model"), Result(t, "unlink"))

C8_Witness ==
    \E t \in Tasks :
        /\ Done(t) /\ redis_client = None
        /\ Result(t, "unlink") = "ok"
        /\ Len(Callbacks(t)) = 1

\* ==================================================================== C9
\* C9: a download that failed on the transport (error response or timeout)
\* was attempted once and has created no temporary file.
C9_FailedFetchLeavesNothing ==
    \A t \in Tasks :
        Result(t, "fetch") \in {"http_error", "timeout"} =>
            /\ ~tmpfile[t]
            /\ Len(Events(t, "fetch")) = 1

C9_Witness ==
    \E t \in Tasks : Done(t) /\ Result(t, "fetch") = "http_error"

\* =================================================================== C10
\* C10: a failed blueprint job records failed:<message> with the message of
\* the error it caught and has sent that message as the error of a callback
\* without blueprint; a callback with a blueprint has no error; every
\* blueprint callback has exactly one of the two.
C10_FailureMessageConsistent ==
    /\ \A t \in Tasks :
          kind[t] = "blueprint" =>
             /\ \A i \in 1..Len(Callbacks(t)) :
                    (Callbacks(t)[i].result # None) # (Callbacks(t)[i].error # None)
             /\ \A i \in 1..Len(log[t]) :
                    log[t][i].op = "set" /\ log[t][i].tag = "failed" =>
                       /\ i > 2
                       /\ log[t][i].error = caught[t]
                       /\ log[t][i].error = ErrMsg(log[t][i-2].op, log[t][i-2].res)
                       /\ log[t][i-1].op = "callback"
                       /\ log[t][i-1].error = log[t][i].error
                       /\ log[t][i-1].result = None
    /\ \A k \in Keys :
          store[k].tag = "failed" =>
             \E t \in Tasks : \E i \in 1..Len(log[t]) :
                 /\ log[t][i].op = "set" /\ log[t][i].res = "ok"
                 /\ log[t][i].tag = "failed" /\ log[t][i].error = store[k].msg

C10_Witness ==
    \E t \in Tasks :
        /\ kind[t] = "blueprint" /\ Done(t)
        /\ Result(t, "extract") = "no_text"
        /\ store[bp_key(t)] = Status("failed", "No extractable text found in PDF")
        /\ Len(Callbacks(t)) = 1
        /\ Callbacks(t)[1].error = "No extractable text found in PDF"

\* =================================================================== C11
\* C11: the concept_scores of every GradingResult hold the four canonical
\* keys; a canonical criterion that no entry read from the model output names
\* is (earned 0, max from the table 30/25/30/15, feedback "Not evaluated"),
\* and one that an entry names keeps the values of the last such entry.
Canonical == {concept_coverage, reasoning_quality, correctness, clarity}

DefaultMax(k) ==
    CASE k = concept_coverage -> 30
      [] k = reasoning_quality -> 25
      [] k = correctness -> 30
      [] k = clarity -> 15

KeyOf(label) == dict_get(key_map, normalize(label), normalize(label))

\* positions of the entries read from the model output that name key k
Reported(k) ==
    {i \in 1..Len(rubric_breakdown(llm)) :
        KeyOf(rubric_breakdown(llm)[i].criterion) = k}

LastReported(k) ==
    rubric_breakdown(llm)[CHOOSE i \in Reported(k) : \A j \in Reported(k) : j <= i]

C11_CanonicalKeysPresent ==
    out.fn = "grade_submission_sync" =>
        \A k \in Canonical :
            /\ k \in DOMAIN out.concept_scores
            /\ Reported(k) = {} =>
                  out.concept_scores[k] =
                      [earned |-> 0, max |-> DefaultMax(k),
                       feedback |-> "Not evaluated"]
            /\ Reported(k) # {} =>
                  /\ out.concept_scores[k].earned = LastReported(k).awarded_marks
                  /\ out.concept_scores[k].max = LastReported(k).max_marks
                  /\ out.concept_scores[k].feedback = LastReported(k).text

C11_Witness ==
    /\ out.fn = "grade_submission_sync"
    /\ Reported(correctness) # {}
    /\ Reported(clarity) = {}
    /\ out.concept_scores[clarity].feedback = "Not evaluated"
    /\ out.concept_scores[correctness].earned = 20

\* =================================================================== C12
\* C12: in every GradingResult each canonical criterion has
\* 0 <= earned <= max.
C12_EarnedWithinMax ==
    out.fn = "grade_submission_sync" =>
        \A k \in Canonical :
            /\ 0 <= out.concept_scores[k].earned
            /\ out.concept_scores[k].earned <= out.concept_scores[k].max

\* =================================================================== C13
\* C13: a label is lowercased, its spaces become underscores and the result
\* is looked up in the synonym table: "Correctness & Accuracy",
\* "correctness_&_accuracy" and "CORRECTNESS" give correctness, every synonym
\* of the table gives a canonical key, and a label the table does not list
\* gives its lowercased, underscored form.
ExpectedKey(label) ==
    CASE label \in {<<"Correctness", " ", "&", " ", "Accuracy">>,
                    <<"correctness", "_", "&", "_", "accuracy">>,
                    <<"CORRECTNESS">>} -> <<"correctness">>
      [] label = <<"Concept", " ", "Coverage">> -> <<"concept", "_", "coverage">>
      [] label \in {<<"Logical", " ", "Reasoning">>, <<"Reasoning">>,
                    <<"reasoning", "_", "quality">>,
                    <<"Logical", " ", "Reasoning", " ", "&", " ", "Structure">>}
           -> <<"reasoning", "_", "quality">>
      [] label \in {<<"Clarity">>, <<"Clarity", " ", "&", " ", "Presentation">>}
           -> <<"clarity">>
      [] label = <<"Originality">> -> <<"originality">>
      [] label = <<"Correctness", " ", "and", " ", "Accuracy">>
           -> <<"correctness", "_", "and", "_", "accuracy">>

C14_CallbackBestEffort ==
    \A t \in Tasks :
        \A i \in 1..Len(log[t]) :
            log[t][i].op = "callback" =>
                /\ log[t][i].ret = "True" <=> log[t][i].res = "ok"
                /\ log[t][i].ret \in {"True", "False"}
                /\ i < Len(log[t]) => log[t][i + 1].op # "callback"
                /\ i = Len(log[t]) =>
                      /\ log[t][i].result # None => pc[t] = "set_completed"
                      /\ log[t][i].result = None =>
                            \/ pc[t] = "set_failed"
                            \/ pc[t] = "done" /\ redis_client = None
                      /\ ~escaped[t]

C14_Witness ==
    \E t \in Tasks :
        /\ Callbacks(t) # <<>>
        /\ Callbacks(t)[1].res = "fail" /\ Callbacks(t)[1].ret = "False"
        /\ Callbacks(t)[1].result # None
        /\ pc[t] = "set_completed"

\* =================================================================== C15
\* C15: every accepted request has been acknowledged with success and the
\* job id blueprint_<assignment_id> or grade_<submission_id> of its kind, has
\* queued one job of that kind, and the acknowledgment is there before the
\* job has taken any step and stays what it is whatever the job does.
C15_ImmediateAcknowledgment ==
    \A t \in Tasks :
        /\ pc[t] = "free" => ack[t] = NoAck /\ kind[t] = None
        /\ pc[t] # "free" =>
              /\ ack[t].success
              /\ kind[t] = "blueprint" => ack[t].job_id = <<"blueprint_", ident[t]>>
              /\ kind[t] = "grade" => ack[t].job_id = <<"grade_", ident[t]>>
              /\ kind[t] \in {"blueprint", "grade"}
        /\ pc[t] = "queued" =>
              log[t] = <<>> /\ ~tmpfile[t] /\ caught[t] = None

C15_Witness ==
    \E t \in Tasks :
        /\ kind[t] = "grade" /\ Done(t)
        /\ Result(t, "model") = "error"
        /\ ack[t] = [success |-> TRUE, job_id |-> <<"grade_", 1>>]

\* =================================================================== C16
\* C16: the GradingBlueprint returned by analyze_solution_sync has
\* total_points equal to the total_marks of the rubric it was given.
C16_TotalPointsFromRubric ==
    out.fn = "analyze_solution_sync" =>
        out.total_points = use_rubric(rubric).total_marks

\* =================================================================== C17
\* C17: with a Job Store, a success callback is sent only after the job has
\* written completed.
C17_CompletedBeforeCallback ==
    \A t \in Tasks :
        \A i \in 1..Len(log[t]) :
            /\ redis_client # None
            /\ log[t][i].op = "callback" /\ log[t][i].result # None
            => \E j \in 1..(i - 1) :
                   /\ log[t][j].op = "set" /\ log[t][j].res = "ok"
                   /\ log[t][j].tag = "completed"

\* =================================================================== C18
\* C18: for a model response in the format build_grading_prompt asks for,
\* each criterion the model reported has its awarded marks as earned and the
\* model's justification as feedback.
C18_BreakdownExtracted ==
    /\ out.fn = "grade_submission_sync"
    /\ llm.section = "rubric_alignment" /\ llm.field = "justification"
    => \A i \in 1..Len(llm.entries) :
          LET k == KeyOf(llm.entries[i].criterion)
          IN  (\A j \in (i + 1)..Len(llm.entries) :
                   KeyOf(llm.entries[j].criterion) # k) =>
                 /\ k \in DOMAIN out.concept_scores
                 /\ out.concept_scores[k].earned = llm.entries[i].awarded_marks
                 /\ out.concept_scores[k].feedback = llm.entries[i].text

\* =================================================================== C19
\* C19 as claimed: a job whose fetch, extraction or model call failed has
\* run no later pipeline step and has recorded failed:<reason>.
PipelineFailure(t) ==
    \E op \in {"fetch", "extract", "model"} : Result(t, op) \notin {None, "ok"}

Reason(t) ==
    IF Result(t, "fetch") # "ok" THEN ErrMsg("fetch", Result(t, "fetch"))
    ELSE IF Result(t, "extract") # "ok"
      THEN ErrMsg("extract", Result(t, "extract"))
    ELSE ErrMsg("model", Result(t, "model"))

NoLaterStep(t) ==
    /\ Result(t, "fetch") # "ok" => Events(t, "extract") = <<>>
    /\ Result(t, "extract") # "ok" => Events(t, "model") = <<>>
    /\ Events(t, "unlink") = <<>>
    /\ \A i \in 1..Len(Callbacks(t)) : Callbacks(t)[i].result = None

C19_FailureRecorded ==
    \A t \in Tasks :
        Done(t) /\ PipelineFailure(t) =>
            /\ NoLaterStep(t)
            /\ \E i \in 1..Len(log[t]) :
                  /\ log[t][i].op = "set" /\ log[t][i].res = "ok"
                  /\ log[t][i].tag = "failed" /\ log[t][i].error = Reason(t)

\* C19 as amended: a job whose fetch, extraction or model call failed has
\* run no later pipeline step and, when the service has a Job Store, its
\* last operation is the status write failed:<reason>.
C19_FailureAborts ==
    \A t \in Tasks :
        Done(t) /\ PipelineFailure(t) =>
            /\ NoLaterStep(t)
            /\ redis_client # None =>
                  /\ log[t][Len(log[t])].op = "set"
                  /\ log[t][Len(log[t])].tag = "failed"
                  /\ log[t][Len(log[t])].error = Reason(t)

C19_Witness ==
    \E t \in Tasks :
        /\ Done(t) /\ redis_client # None
        /\ Result(t, "fetch") = "ok" /\ Result(t, "extract") = "no_text"
        /\ store[IF kind[t] = "blueprint" THEN bp_key(t) ELSE gr_key(t)]
              = Status("failed", "No extractable text found in PDF")

\* =================================================================== C20
\* C20: a job whose success callback was not delivered raises nothing, sends
\* no further callback, removes its temporary file and does not write
\* completed.
C20_CallbackFailureContained ==
    \A t \in Tasks :
        /\ Done(t)
        /\ \E i \in 1..Len(Callbacks(t)) :
              Callbacks(t)[i].result # None /\ Callbacks(t)[i].res = "fail"
        => /\ ~escaped[t]
           /\ Len(Callbacks(t)) = 1
           /\ ~tmpfile[t]
           /\ \A i \in 1..Len(log[t]) :
                 ~(log[t][i].op = "set" /\ log[t][i].res = "ok"
                   /\ log[t][i].tag = "completed")

\* =================================================================== C21
\* C21: every accepted job eventually ends, and a job that ends with a Job
\* Store that accepted its writes has written completed or failed:<reason>
\* last: it does not end with its status at processing.
C21_EventuallyTerminal ==
    \A t \in Tasks :
        (pc[t] = "queued") ~>
            /\ Done(t)
            /\ redis_client # None /\ StoreAcceptsAll(t) =>
                  /\ StatusWrites(t) # <<>>
                  /\ Terminal(StatusWrites(t)[Len(StatusWrites(t))])

C21_Witness ==
    \E t \in Tasks :
        /\ kind[t] = "grade" /\ Done(t)
        /\ redis_client # None /\ StoreAcceptsAll(t)
        /\ Result(t, "model") = "error"
        /\ StatusWrites(t)[Len(StatusWrites(t))].tag = "failed"

\* =================================================================== C22
\* C22: the operations of one job come in the order fetch, extract, model
\* call, success callback, cleanup, each at most once and each only after the
\* one before it has returned successfully.
Pos(t, op) == CHOOSE i \in 1..Len(log[t]) : log[t][i].op = op
Ran(t, op) == Events(t, op) # <<>>

SuccessCallbacks(t) ==
    SelectSeq(log[t], LAMBDA e : e.op = "callback" /\ e.result # None)

SuccessCallbackPos(t) ==
    CHOOSE i \in 1..Len(log[t]) :
        log[t][i].op = "callback" /\ log[t][i].result # None

C22_StepsInOrder ==
    \A t \in Tasks :
        /\ \A op \in {"fetch", "extract", "model", "unlink"} :
               Len(Events(t, op)) <= 1
        /\ Len(SuccessCallbacks(t)) <= 1
        /\ Ran(t, "extract") =>
               /\ Result(t, "fetch") = "ok"
               /\ Pos(t, "fetch") < Pos(t, "extract")
        /\ Ran(t, "model") =>
               /\ Result(t, "extract") = "ok"
               /\ Pos(t, "extract") < Pos(t, "model")
        /\ SuccessCallbacks(t) # <<>> =>
               /\ Result(t, "model") = "ok"
               /\ Pos(t, "model") < SuccessCallbackPos(t)
        /\ Ran(t, "unlink") =>
               /\ SuccessCallbacks(t) # <<>>
               /\ SuccessCallbackPos(t) < Pos(t, "unlink")
        /\ pc[t] = "model" <=> running = t

C22_Witness ==
    \E t \in Tasks :
        /\ Done(t) /\ Result(t, "unlink") = "ok"
        /\ Shapes(NonStatus(t)) =
              <<Plain("fetch"), Plain("extract"), Plain("model"),
                <<"callback", SuccessResult(kind[t]), None>>, Plain("unlink")>>

\* =================================================================== C23
\* C23: a job writes only processing, completed or failed:<message> to its
\* status key; its first write is processing and comes before the fetch; a
\* failed write carries a message and the other two carry none; queued is
\* never written.
C23_StatusValues ==
    /\ \A t \in Tasks :
          /\ \A i \in 1..Len(log[t]) :
                log[t][i].op = "set" =>
                   /\ log[t][i].tag \in {"processing", "completed", "failed"}
                   /\ log[t][i].tag = "failed" <=> log[t][i].error # None
          /\ Events(t, "set") # <<>> =>
                /\ log[t][1].op = "set" /\ log[t][1].tag = "processing"
          /\ redis_client # None /\ Ran(t, "fetch") => log[t][1].op = "set"
    /\ \A k \in Keys :
          store[k].tag \in {"absent", "processing", "completed", "failed"}

C23_Witness ==
    \E t \in Tasks :
        /\ Done(t) /\ Len(StatusWrites(t)) = 2
        /\ StatusWrites(t)[1].tag = "processing"
        /\ StatusWrites(t)[2].tag = "completed"

\* =================================================================== C24
\* C24: a step of a job changes no status key but the job's own
\* job:blueprint:<assignment_id> or job:grade:<submission_id>, and no
\* temporary file but the job's own.
OwnKey(t) ==
    <<IF kind[t] = "blueprint" THEN "job:blueprint" ELSE "job:grade", ident[t]>>

InFlight(t) == pc[t] \notin {"free", "done"}

C25_SingleWriter ==
    \A t, u \in Tasks :
        t # u /\ InFlight(t) /\ InFlight(u) => OwnKey(t) # OwnKey(u)

\* =================================================================== C26
\* C26: analyze_solution_sync returns a blueprint whichever of concepts,
\* expected_steps, key_facts and rubric the model left out: a missing list is
\* empty, a missing rubric is the weights 30, 25, 30, 15, which sum to 100,
\* and a key the model gave keeps its value.
C26_MissingFieldsDefault ==
    out.fn = "analyze_solution_sync" =>
        /\ llm.concepts = <<>> => out.concepts = <<>>
        /\ llm.concepts # <<>> => out.concepts = llm.concepts[1]
        /\ llm.expected_steps = <<>> => out.expected_steps = <<>>
        /\ llm.expected_steps # <<>> => out.expected_steps = llm.expected_steps[1]
        /\ llm.key_facts = <<>> => out.key_facts = <<>>
        /\ llm.key_facts # <<>> => out.key_facts = llm.key_facts[1]
        /\ llm.weights # <<>> => out.rubric = llm.weights[1]
        /\ llm.weights = <<>> =>
              /\ DOMAIN out.rubric = Canonical
              /\ \A k \in Canonical : out.rubric[k] = DefaultMax(k)
              /\ out.rubric[concept_coverage] + out.rubric[reasoning_quality]
                   + out.rubric[correctness] + out.rubric[clarity] = 100

C26_Witness ==
    /\ out.fn = "analyze_solution_sync"
    /\ llm.concepts = <<>> /\ llm.expected_steps = <<>>
    /\ llm.key_facts = <<>> /\ llm.weights = <<>>
    /\ out.concepts = <<>> /\ out.rubric[clarity] = 15

\* =================================================================== C27
\* C27: the health probe answers healthy, with redis_connected true exactly
\* when there is a client and its ping succeeded.
C27_HealthAlwaysHealthy ==
    out.fn = "health_check" =>
        /\ out.status = "healthy"
        /\ out.redis_connected <=> (redis_client = "client" /\ llm.ping = "ok")
        /\ redis_client = None => ~out.redis_connected
        /\ llm.ping = "raise" => ~out.redis_connected

C27_Witness ==
    /\ out.fn = "health_check"
    /\ redis_client = "client" /\ llm.ping = "raise"
    /\ out.status = "healthy" /\ ~out.redis_connected

\* =================================================================== C28
\* C28: when several entries of the model's breakdown name the same key, the
\* result holds for that key the marks and text of the last of them, not
\* those of an earlier one and not their sum.
C28_LastDuplicateWins ==
    out.fn = "grade_submission_sync" /\ llm.section = "rubric_breakdown" =>
        \A i \in 1..Len(llm.entries) : \A j \in 1..Len(llm.entries) :
            /\ i < j
            /\ ExpectedKey(llm.entries[i].criterion)
                  = ExpectedKey(llm.entries[j].criterion)
            /\ \A n \in (j + 1)..Len(llm.entries) :
                  ExpectedKey(llm.entries[n].criterion)
                     # ExpectedKey(llm.entries[j].criterion)
            => out.concept_scores[ExpectedKey(llm.entries[j].criterion)] =
                  [earned |-> llm.entries[j].awarded_marks,
                   max |-> llm.entries[j].max_marks,
                   feedback |-> llm.entries[j].text]

C28_Witness ==
    /\ out.fn = "grade_submission_sync" /\ llm.section = "rubric_breakdown"
    /\ Len(llm.entries) = 2
    /\ llm.entries[1].criterion = <<"Reasoning">>
    /\ llm.entries[1].awarded_marks = 20
    /\ llm.entries[2].criterion = <<"Logical", " ", "Reasoning">>
    /\ llm.entries[2].awarded_marks = 40
    /\ out.concept_scores[reasoning_quality].earned = 40

====
